---- MODULE Spec2Model ----
(***************************************************************************)
(* A model of ew.zsh's two helper scripts.                                 *)
(*                                                                         *)
(*   emacs_servers.py  list / clean / ensure: inspects the process table   *)
(*                     (ps), each emacs-like process's open files (lsof)   *)
(*                     and the per-user socket directory, then prints,     *)
(*                     unlinks dangling sockets or launches daemons.       *)
(*   emmy.py           launches the default daemon unless it is detected   *)
(*                     and polls until it is no longer detected.           *)
(*                                                                         *)
(* The operating system (process table, socket directory) is the           *)
(* environment.  Each external command of a run is one step, so that the   *)
(* environment can change between two reads of the same run.               *)
(***************************************************************************)
EXTENDS Integers, Sequences, FiniteSets, TLC

\* ------------------------------------------------------------------ bounds
MaxPid == 2
MaxReq == 2
NumLines == 2
MaxSleeps == 2

\* ------------------------------------------------------- program constants
\* emmy.py sets SLEEP_TIME = 10; its wait loop passes the same literal to
\* time.sleep.
SLEEP_TIME == 10

Pids == 1..MaxPid
Names == {"git", "notes"}

\* ------------------------------------------------------------- environment
\* A slot of the process table: no process, a process whose command line
\* does not contain "emacs", or an emacs-like process.  handles is, in the
\* order lsof prints them, the names of the process's open files that lie
\* directly inside the socket directory.
SeqsUpTo(S, n) == UNION {[1..k -> S] : k \in 0..n}

\* No handle into the directory, one, or two different ones in either order.
HandleLists ==
    {h \in SeqsUpTo(Names, 2) : Len(h) = 2 => h[1] # h[2]}

ProcKinds ==
    {[kind |-> "absent", handles |-> <<>>], [kind |-> "other", handles |-> <<>>]}
    \cup {[kind |-> "emacs", handles |-> h] : h \in HandleLists}

Absent == [kind |-> "absent", handles |-> <<>>]

\* The socket directory: absent, or one entry kind per name.
EntryKinds == {"none", "socket", "file"}
NoEntries == [n \in Names |-> "none"]
SockDirs ==
    {[exists |-> FALSE, entries |-> NoEntries]}
    \cup {[exists |-> TRUE, entries |-> e] : e \in [Names -> EntryKinds]}

\* A line of ps ax: no such line, or a command line that contains
\* 'Emacs.app' (app) and / or 'daemon' (daemon).
NoLine == [present |-> FALSE, app |-> FALSE, daemon |-> FALSE]
DaemonLine == [present |-> TRUE, app |-> TRUE, daemon |-> TRUE]
LineKinds ==
    {NoLine} \cup {[present |-> TRUE, app |-> a, daemon |-> d] : a, d \in BOOLEAN}

VARIABLES
    procs,                  \* the process table
    sockdir,                \* the socket directory $TMPDIR/emacs<uid>
    pc,                     \* position of the running command
    command,                \* the function main dispatched to
    servers,                \* the list of requested server names
    emacs_pids,             \* pids ps listed, not yet inspected
    emacs_server_processes, \* pid -> server name, built so far
    emacs_server_sockets,   \* what enumerate_apparent_server_sockets returned
    running_servers,        \* what list_running_servers returned
    pending,                \* dangling_socket_names / missing_servers to go
    exc,                    \* the uncaught exception, "none" if none
    launched,               \* names given to attempt_to_start_server, in order
    unlinked,               \* names clean has unlinked
    stdout,                 \* lines printed
    calls,                  \* external inspections made: ps, lsof, scans
    procs0,                 \* the process table when the command was called
    sockdir0,               \* the socket directory when the command was called
    interfered              \* the environment changed during the command

srvvars == <<procs, sockdir, pc, command, servers, emacs_pids,
             emacs_server_processes, emacs_server_sockets, running_servers,
             pending, exc, launched, unlinked, stdout, calls,
             procs0, sockdir0, interfered>>

VARIABLES
    pslines,                \* emmy.py: the lines of ps ax after the header
    epc,                    \* emmy.py: position of main
    daemon_launches,        \* emmy.py: calls of launch_emacs_daemon
    polls,                  \* emmy.py: liveness checks made by the wait loop
    sleeps,                 \* emmy.py: sleeps made, counted up to MaxSleeps
    last_sleep              \* emmy.py: length of the latest sleep

emvars == <<pslines, epc, daemon_launches, polls, sleeps, last_sleep>>

vars == <<srvvars, emvars>>

\* ------------------------------------------------------------ Python values
PyNone == [type |-> "None", elems |-> {}]
PySet(S) == [type |-> "set", elems |-> S]
PyEmptyDict == [type |-> "dict", elems |-> {}]

\* set(x): the elements of a set, the keys of a dict.
ToSet(x) == x.elems

\* set(list)
ListToSet(s) == {s[i] : i \in DOMAIN s}

\* dict.values()
Values(d) == {d[k] : k \in DOMAIN d}

RECURSIVE Sorted(_)
Sorted(S) ==
    IF S = {} THEN <<>>
    ELSE LET m == CHOOSE x \in S : \A y \in S : x <= y
         IN <<m>> \o Sorted(S \ {m})

\* ------------------------------------------------------------------- Init
\* emmy.py not started: its variables stay as they are here.
EmmyIdle ==
    /\ pslines = [i \in 1..NumLines |-> NoLine]
    /\ epc = "idle"
    /\ daemon_launches = 0
    /\ polls = 0
    /\ sleeps = 0
    /\ last_sleep = 0

\* The state of emacs_servers.py before main reads anything.
ServersFresh ==
    /\ command = "none"
    /\ servers = <<>>
    /\ emacs_pids = <<>>
    /\ emacs_server_processes = <<>>
    /\ emacs_server_sockets = PyNone
    /\ running_servers = PyNone
    /\ pending = {}
    /\ exc = "none"
    /\ launched = <<>>
    /\ unlinked = {}
    /\ stdout = {}
    /\ calls = [ps |-> 0, lsof |-> 0, scan |-> 0]
    /\ procs0 = procs
    /\ sockdir0 = sockdir
    /\ interfered = FALSE

\* One run of emacs_servers.py against any process table and directory.
Init ==
    /\ procs \in [Pids -> ProcKinds]
    /\ sockdir \in SockDirs
    /\ pc = "start"
    /\ ServersFresh
    /\ EmmyIdle

\* ------------------------------------------------------- emacs_servers.py
Raise(e) ==
    /\ pc' = "raised"
    /\ exc' = e

\* Entering one of the three enumerating commands: each starts with
\* enumerate_apparent_emacs_server_processes().
Enter(f, srv) ==
    /\ command' = f
    /\ servers' = srv
    /\ pc' = "ps"
    /\ UNCHANGED <<procs, sockdir, emacs_pids, emacs_server_processes,
                   emacs_server_sockets, running_servers, pending, exc,
                   launched, unlinked, stdout, calls, procs0, sockdir0,
                   interfered>>
    /\ UNCHANGED emvars

\* The function without its raise: it returns as if it had done the work.
ensure_servers_stopped_silent(srv) ==
    /\ command' = "ensure_servers_stopped"
    /\ servers' = srv
    /\ pc' = "done"
    /\ UNCHANGED <<procs, sockdir, emacs_pids, emacs_server_processes,
                   emacs_server_sockets, running_servers, pending, exc,
                   launched, unlinked, stdout, calls, procs0, sockdir0,
                   interfered>>
    /\ UNCHANGED emvars

ensure_servers_stopped(srv) ==
    /\ command' = "ensure_servers_stopped"
    /\ servers' = srv
    /\ Raise("NotImplementedError")
    /\ UNCHANGED <<procs, sockdir, emacs_pids, emacs_server_processes,
                   emacs_server_sockets, running_servers, pending,
                   launched, unlinked, stdout, calls, procs0, sockdir0,
                   interfered>>
    /\ UNCHANGED emvars

\* parse_args: list and clean take no names, ensure takes one or more.
parse_args(cmd, stopped, srv) ==
    /\ cmd \in {"list", "clean", "ensure"}
    /\ cmd = "ensure" => Len(srv) >= 1
    /\ cmd # "ensure" => srv = <<>> /\ ~stopped

main(cmd, stopped, srv) ==
    /\ pc = "start"
    /\ parse_args(cmd, stopped, srv)
    /\ IF cmd = "list" THEN Enter("list_running_servers", srv)
       ELSE IF cmd = "clean" THEN Enter("clean_dangling_server_sockets", srv)
       ELSE IF ~stopped THEN Enter("ensure_servers_running", srv)
       ELSE ensure_servers_stopped(srv)

\* ensure_servers_running called as a function, with any list.
ensure_servers_running(srv) ==
    /\ pc = "start"
    /\ Enter("ensure_servers_running", srv)

\* ps -x -o pid,command, filtered on "emacs", pids sorted.
run_ps ==
    /\ pc = "ps"
    /\ emacs_pids' = Sorted({p \in Pids : procs[p].kind = "emacs"})
    /\ calls' = [calls EXCEPT !.ps = @ + 1]
    /\ pc' = "lsof"
    /\ UNCHANGED <<procs, sockdir, command, servers, emacs_server_processes,
                   emacs_server_sockets, running_servers, pending, exc,
                   launched, unlinked, stdout, procs0, sockdir0, interfered>>
    /\ UNCHANGED emvars

\* re.search(..., re.MULTILINE) returns the first matching line.
FirstMatch(handles) == IF handles = <<>> THEN "None" ELSE Head(handles)

\* lsof +p pid exits non-zero for a pid that no longer exists, and
\* subprocess.check_output raises CalledProcessError, which nothing catches.
check_if_process_is_emacs_server ==
    /\ pc = "lsof"
    /\ emacs_pids # <<>>
    /\ LET pid == Head(emacs_pids)
           server_name == FirstMatch(procs[pid].handles)
       IN /\ calls' = [calls EXCEPT !.lsof = @ + 1]
          /\ IF procs[pid].kind = "absent"
             THEN /\ Raise("CalledProcessError")
                  /\ UNCHANGED <<emacs_pids, emacs_server_processes>>
             ELSE /\ emacs_pids' = Tail(emacs_pids)
                  /\ emacs_server_processes' =
                        IF server_name = "None" THEN emacs_server_processes
                        ELSE emacs_server_processes @@ (pid :> server_name)
                  /\ UNCHANGED <<pc, exc>>
    /\ UNCHANGED <<procs, sockdir, command, servers, emacs_server_sockets,
                   running_servers, pending, launched, unlinked, stdout,
                   procs0, sockdir0, interfered>>
    /\ UNCHANGED emvars

\* The value returned for the directory as it is now.
ScanResult(dir) ==
    IF dir.exists
    THEN PySet({n \in Names : dir.entries[n] = "socket"})
    ELSE PyEmptyDict

enumerate_apparent_server_sockets ==
    /\ pc = "lsof"
    /\ emacs_pids = <<>>
    /\ emacs_server_sockets' = ScanResult(sockdir)
    /\ calls' = [calls EXCEPT !.scan = @ + 1]
    /\ pc' = "scanned"
    /\ UNCHANGED <<procs, sockdir, command, servers, emacs_pids,
                   emacs_server_processes, running_servers, pending, exc,
                   launched, unlinked, stdout, procs0, sockdir0, interfered>>
    /\ UNCHANGED emvars

ListOutput(processes, sockets) ==
    (IF DOMAIN processes = {} THEN {<<"No emacs server processes">>} ELSE {})
    \cup {<<"Server", processes[p], p, processes[p] \in sockets.elems>> :
            p \in DOMAIN processes}
    \cup {<<"Dangling socket", n>> : n \in ToSet(sockets) \ Values(processes)}

\* The return statement with | for &.
ApparentRunningUnion(processes, sockets) == Values(processes) \cup ToSet(sockets)

\* The return statement of list_running_servers.
ApparentRunning(processes, sockets) == Values(processes) \cap ToSet(sockets)

list_running_servers ==
    /\ pc = "scanned"
    /\ command \in {"list_running_servers", "ensure_servers_running"}
    /\ stdout' = stdout \cup ListOutput(emacs_server_processes, emacs_server_sockets)
    /\ running_servers' =
          PySet(ApparentRunning(emacs_server_processes, emacs_server_sockets))
    /\ pc' = IF command = "list_running_servers" THEN "done" ELSE "ensure"
    /\ UNCHANGED <<procs, sockdir, command, servers, emacs_pids,
                   emacs_server_processes, emacs_server_sockets, pending, exc,
                   launched, unlinked, calls, procs0, sockdir0, interfered>>
    /\ UNCHANGED emvars

\* The requested names without the subtraction of the running ones.
MissingServersAll(srv, running) == ListToSet(srv)

MissingServers(srv, running) == ListToSet(srv) \ running.elems

missing_servers ==
    /\ pc = "ensure"
    /\ pending' = MissingServers(servers, running_servers)
    /\ pc' = IF pending' = {} THEN "done" ELSE "launch"
    /\ UNCHANGED <<procs, sockdir, command, servers, emacs_pids,
                   emacs_server_processes, emacs_server_sockets,
                   running_servers, exc, launched, unlinked, stdout, calls,
                   procs0, sockdir0, interfered>>
    /\ UNCHANGED emvars

attempt_to_start_server(server) ==
    /\ pc = "launch"
    /\ server \in pending
    /\ launched' = Append(launched, server)
    /\ pending' = pending \ {server}
    /\ pc' = IF pending' = {} THEN "done" ELSE "launch"
    /\ UNCHANGED <<procs, sockdir, command, servers, emacs_pids,
                   emacs_server_processes, emacs_server_sockets,
                   running_servers, exc, unlinked, stdout, calls,
                   procs0, sockdir0, interfered>>
    /\ UNCHANGED emvars

\* Every socket taken as dangling.
DanglingSocketNamesAll(sockets, processes) == sockets.elems

DanglingSocketNames(sockets, processes) == sockets.elems \ Values(processes)

\* emacs_server_sockets - set(...): a dict has no "-".
dangling_socket_names ==
    /\ pc = "scanned"
    /\ command = "clean_dangling_server_sockets"
    /\ IF emacs_server_sockets.type # "set"
       THEN /\ Raise("TypeError")
            /\ UNCHANGED pending
       ELSE /\ pending' = DanglingSocketNames(emacs_server_sockets,
                                              emacs_server_processes)
            /\ pc' = IF pending' = {} THEN "done" ELSE "unlink"
            /\ UNCHANGED exc
    /\ UNCHANGED <<procs, sockdir, command, servers, emacs_pids,
                   emacs_server_processes, emacs_server_sockets,
                   running_servers, launched, unlinked, stdout, calls,
                   procs0, sockdir0, interfered>>
    /\ UNCHANGED emvars

\* os.unlink raises FileNotFoundError for a path that is gone.
unlink(socket_name) ==
    /\ pc = "unlink"
    /\ socket_name \in pending
    /\ stdout' = stdout \cup {<<"Cleaning dangling emacs server socket", socket_name>>}
    /\ IF sockdir.entries[socket_name] = "none"
       THEN /\ Raise("FileNotFoundError")
            /\ UNCHANGED <<sockdir, unlinked, pending>>
       ELSE /\ sockdir' = [sockdir EXCEPT !.entries[socket_name] = "none"]
            /\ unlinked' = unlinked \cup {socket_name}
            /\ pending' = pending \ {socket_name}
            /\ pc' = IF pending' = {} THEN "done" ELSE "unlink"
            /\ UNCHANGED exc
    /\ UNCHANGED <<procs, command, servers, emacs_pids,
                   emacs_server_processes, emacs_server_sockets,
                   running_servers, launched, calls, procs0, sockdir0,
                   interfered>>
    /\ UNCHANGED emvars

\* --------------------------------------------------------- the environment
\* The environment is followed from the first read of a run (ps) to its last
\* read or write: the scan for list and ensure, the last unlink for clean.
Running ==
    \/ pc = "lsof"
    \/ pc \in {"scanned", "unlink"} /\ command = "clean_dangling_server_sockets"

\* An emacs-like process exits while the command runs.
process_exits(p) ==
    /\ Running
    /\ procs[p].kind = "emacs"
    /\ procs' = [procs EXCEPT ![p] = Absent]
    /\ interfered' = TRUE
    /\ UNCHANGED <<sockdir, pc, command, servers, emacs_pids,
                   emacs_server_processes, emacs_server_sockets,
                   running_servers, pending, exc, launched, unlinked, stdout,
                   calls, procs0, sockdir0>>
    /\ UNCHANGED emvars

\* Another actor (a second clean, the daemon itself) removes a socket.
socket_removed(n) ==
    /\ Running
    /\ sockdir.entries[n] = "socket"
    /\ sockdir' = [sockdir EXCEPT !.entries[n] = "none"]
    /\ interfered' = TRUE
    /\ UNCHANGED <<procs, pc, command, servers, emacs_pids,
                   emacs_server_processes, emacs_server_sockets,
                   running_servers, pending, exc, launched, unlinked, stdout,
                   calls, procs0, sockdir0>>
    /\ UNCHANGED emvars

Next ==
    \/ \E cmd \in {"list", "clean", "ensure"}, stopped \in BOOLEAN,
          srv \in SeqsUpTo(Names, MaxReq) : main(cmd, stopped, srv)
    \/ \E srv \in SeqsUpTo(Names, MaxReq) : ensure_servers_running(srv)
    \/ run_ps
    \/ check_if_process_is_emacs_server
    \/ enumerate_apparent_server_sockets
    \/ list_running_servers
    \/ missing_servers
    \/ \E s \in Names : attempt_to_start_server(s)
    \/ dangling_socket_names
    \/ \E s \in Names : unlink(s)
    \/ \E p \in Pids : process_exits(p)
    \/ \E n \in Names : socket_removed(n)

Spec == Init /\ [][Next]_vars

\* ------------------------------------------------------------------ emmy.py
\* One run of emmy.py against any output of ps ax.
InitEmmy ==
    /\ procs = [p \in Pids |-> Absent]
    /\ sockdir = [exists |-> FALSE, entries |-> NoEntries]
    /\ pc = "idle"
    /\ ServersFresh
    /\ pslines \in [1..NumLines -> LineKinds]
    /\ epc = "start"
    /\ daemon_launches = 0
    /\ polls = 0
    /\ sleeps = 0
    /\ last_sleep = 0

\* The test with "or" for "and".
emacs_daemon_is_running_either(lines) ==
    \E i \in DOMAIN lines :
        lines[i].present /\ (lines[i].app \/ lines[i].daemon)

emacs_daemon_is_running(lines) ==
    \E i \in DOMAIN lines :
        lines[i].present /\ lines[i].app /\ lines[i].daemon

emmy_main ==
    /\ epc = "start"
    /\ epc' = IF ~emacs_daemon_is_running(pslines) THEN "launch" ELSE "done"
    /\ UNCHANGED <<pslines, daemon_launches, polls, sleeps, last_sleep>>
    /\ UNCHANGED srvvars

\* os.system(...) returns when the command has: the daemon is then up, on a
\* free line of ps, or the command failed and nothing was started.  The
\* return value is ignored.
launch_emacs_daemon ==
    /\ epc = "launch"
    /\ daemon_launches' = daemon_launches + 1
    /\ \/ \E i \in 1..NumLines :
            /\ ~pslines[i].present
            /\ pslines' = [pslines EXCEPT ![i] = DaemonLine]
       \/ UNCHANGED pslines
    /\ epc' = "wait"
    /\ UNCHANGED <<polls, sleeps, last_sleep>>
    /\ UNCHANGED srvvars

\* The test of the while loop.
wait_for_emacs_daemon_to_end ==
    /\ epc = "wait"
    /\ polls' = IF polls < MaxSleeps + 1 THEN polls + 1 ELSE polls
    /\ epc' = IF emacs_daemon_is_running(pslines) THEN "sleep" ELSE "done"
    /\ UNCHANGED <<pslines, daemon_launches, sleeps, last_sleep>>
    /\ UNCHANGED srvvars

\* time.sleep(10), the body of the while loop.
sleep ==
    /\ epc = "sleep"
    /\ last_sleep' = SLEEP_TIME
    /\ sleeps' = IF sleeps < MaxSleeps THEN sleeps + 1 ELSE sleeps
    /\ epc' = "wait"
    /\ UNCHANGED <<pslines, daemon_launches, polls>>
    /\ UNCHANGED srvvars

\* A process of the listing exits while emmy.py runs.
line_exits(i) ==
    /\ epc \in {"start", "launch", "wait", "sleep"}
    /\ pslines[i].present
    /\ pslines' = [pslines EXCEPT ![i] = NoLine]
    /\ UNCHANGED <<epc, daemon_launches, polls, sleeps, last_sleep>>
    /\ UNCHANGED srvvars

EmmyStep ==
    \/ emmy_main
    \/ launch_emacs_daemon
    \/ wait_for_emacs_daemon_to_end
    \/ sleep

NextEmmy ==
    \/ EmmyStep
    \/ \E i \in 1..NumLines : line_exits(i)

\* main runs to its end: nothing but the daemon's lifetime holds it up.
SpecEmmy == InitEmmy /\ [][NextEmmy]_vars /\ WF_vars(EmmyStep)

\* ============================================================== properties
\* The snapshot a command was called on, read directly.
\* A candidate process resolves to the first handle lsof lists for it.
Resolved0 ==
    {n \in Names : \E p \in Pids :
        /\ procs0[p].kind = "emacs"
        /\ Len(procs0[p].handles) >= 1
        /\ procs0[p].handles[1] = n}

Sockets0 == {n \in Names : sockdir0.exists /\ sockdir0.entries[n] = "socket"}

ApparentRunningSet0 == {n \in Names : n \in Resolved0 /\ n \in Sockets0}

Requested == {n \in Names : \E i \in 1..Len(servers) : servers[i] = n}

Launched == {n \in Names : \E i \in 1..Len(launched) : launched[i] = n}

NoZero == [ps |-> 0, lsof |-> 0, scan |-> 0]

C2_ListReturnsIntersection ==
    running_servers # PyNone /\ ~interfered =>
        /\ running_servers.type = "set"
        /\ \A n \in Names :
              n \in running_servers.elems <=> (n \in Resolved0 /\ n \in Sockets0)

\* list returned a name, with another name that has a process but no socket
\* or a socket but no process.
C2_Witness ==
    /\ command = "list_running_servers"
    /\ pc = "done"
    /\ ~interfered
    /\ running_servers.elems # {}
    /\ (Resolved0 \cup Sockets0) \ ApparentRunningSet0 # {}

\* C3: with the socket directory present and a snapshot that stays as it was
\* at the call, clean unlinks only sockets whose name no candidate process
\* resolves to, all of them by the time it returns, and every other entry
\* of the directory is as it was.
C3_CleanDeletesExactlyDangling ==
    command = "clean_dangling_server_sockets" /\ sockdir0.exists /\ ~interfered =>
        /\ unlinked \subseteq Sockets0 \ Resolved0
        /\ unlinked \cap ApparentRunningSet0 = {}
        /\ sockdir.exists
        /\ \A n \in Names :
              sockdir.entries[n] =
                  IF n \in unlinked THEN "none" ELSE sockdir0.entries[n]
        /\ pc = "done" => unlinked = Sockets0 \ Resolved0
        /\ pc # "raised"

\* clean returned having unlinked a dangling socket and kept another entry.
C3_Witness ==
    /\ command = "clean_dangling_server_sockets"
    /\ pc = "done"
    /\ ~interfered
    /\ unlinked # {}
    /\ \E n \in Names : sockdir.entries[n] # "none"

\* C4: with the socket directory absent, the scanner returns the empty set
\* and list_running_servers returns the empty set without an error.
C4_AbsentDirectoryGivesEmptySet ==
    ~sockdir0.exists /\ ~interfered =>
        /\ emacs_server_sockets # PyNone => emacs_server_sockets = PySet({})
        /\ command = "list_running_servers" =>
              /\ pc # "raised"
              /\ pc = "done" => running_servers = PySet({})

\* C5: ensure --stopped ends in NotImplementedError, having inspected,
\* launched and deleted nothing.
C5_EnsureStoppedUnimplemented ==
    command = "ensure_servers_stopped" =>
        /\ pc = "raised"
        /\ exc = "NotImplementedError"
        /\ launched = <<>>
        /\ unlinked = {}
        /\ calls = NoZero
        /\ procs = procs0
        /\ sockdir = sockdir0

\* ensure --stopped was given two names while an emacs-like process and a
\* socket exist.
C5_Witness ==
    /\ command = "ensure_servers_stopped"
    /\ Len(servers) = 2
    /\ \E p \in Pids : procs[p].kind = "emacs"
    /\ \E n \in Names : sockdir.entries[n] = "socket"

\* C6: ensure_servers_running on the empty list inspects and launches
\* nothing.
C6_EmptyEnsureShortCircuits ==
    command = "ensure_servers_running" /\ servers = <<>> =>
        /\ calls = NoZero
        /\ launched = <<>>

\* C7: a failing lsof for a candidate process is not propagated.
C7_LsofFailureTolerated == exc # "CalledProcessError"

\* C9: with the socket directory absent, clean ends without an error and
\* deletes nothing.
C9_CleanAbsentDirectory ==
    command = "clean_dangling_server_sockets" /\ ~sockdir0.exists /\ ~interfered =>
        /\ pc # "raised"
        /\ unlinked = {}

\* C10: clean does not end in an error when a dangling socket of its scan is
\* gone before the unlink.
C10_CleanToleratesConcurrentDeletion ==
    command = "clean_dangling_server_sockets" => exc # "FileNotFoundError"

\* The daemon as the spec defines its detection: one command line with both
\* markers.
DaemonDetected ==
    \E i \in 1..NumLines :
        pslines[i].present /\ pslines[i].app /\ pslines[i].daemon

\* What one step of emmy.py may do, in the terms of C8.
C8_Step ==
    /\ (epc = "start" /\ epc' # "start") =>
          IF DaemonDetected
          THEN epc' = "done" /\ daemon_launches' = 0 /\ polls' = 0
          ELSE epc' = "launch"
    /\ (epc = "launch" /\ epc' # "launch") =>
          epc' = "wait" /\ daemon_launches = 0 /\ daemon_launches' = 1
    /\ daemon_launches' # daemon_launches => epc = "launch"
    /\ (epc = "wait" /\ epc' # "wait") =>
          IF DaemonDetected THEN epc' = "sleep" ELSE epc' = "done"
    /\ (epc = "sleep" /\ epc' # "sleep") =>
          epc' = "wait" /\ last_sleep' = 10
    /\ (epc # "done" /\ epc' = "done") =>
          \/ epc = "start" /\ DaemonDetected
          \/ epc = "wait" /\ ~DaemonDetected

\* C8: emmy.main returns at once, with no launch and no poll, if the daemon
\* is detected at the first check; otherwise it launches once, and returns
\* only from a check that does not detect the daemon, checking again after
\* each sleep of 10; it never launches twice; and it returns if the daemon
\* stops being detected for good.
C8_SuperviseSingleton ==
    /\ [][C8_Step]_vars
    /\ [](daemon_launches <= 1)
    /\ (<>[](~DaemonDetected)) => <>(epc = "done")

\* main returned after one launch and at least one sleep.
C8_Witness ==
    /\ epc = "done"
    /\ daemon_launches = 1
    /\ sleeps >= 1
    /\ last_sleep = 10

====
